---- MODULE Spec2Model ----
(***************************************************************************)
(* A model of mnist_gan.py: the command entry point (main), the three      *)
(* commands create / train / generate, the checkpoint they share, the      *)
(* weight clip of the discriminator, and the shape propagation of the two  *)
(* hard-coded layer lists.                                                  *)
(*                                                                         *)
(* Parameter tensors are abstracted to one integer each, in units of the   *)
(* clip magnitude's 0.01 (so mag = 0.01 is the integer 1).  The 14         *)
(* generator tensors are represented by one variable and the 12            *)
(* discriminator tensors by two.  A gradient step may move each parameter  *)
(* of its var_list to any value of its domain (the gradient depends on     *)
(* data and noise the model does not follow).                               *)
(*                                                                         *)
(* The Saver keys variables by their graph names, which follow creation    *)
(* order; GAN() is the first construction of every command, so the GAN's   *)
(* variables carry the same names in create, train and generate.  The      *)
(* model names them by role.  Adam's slots and generate's noise variable   *)
(* are created after the Saver and are in no checkpoint.  A save is one    *)
(* atomic step (the file mechanics belong to the checkpoint collaborator). *)
(***************************************************************************)
EXTENDS Integers, Sequences, FiniteSets, TLC

VARIABLES
    pc,        \* position of the running process ("idle": no process)
    argv,      \* sys.argv of the running process
    status,    \* "none" | "running" | "clean" | "error" | "killed"
    stdout,    \* the last line the process has printed (<<>>: none)
    graph,     \* the tf.Variables the current (or last) process constructed
    saver,     \* the variables the process's tf.train.Saver covers
    mem,       \* the session's variable values (empty until initialized)
    ckpt,      \* the checkpoint file SAVE_FILE
    i,         \* the loop variable of `for _ in range(0, 30)`
    losses,    \* len(losses)
    shown,     \* pyplot.show() has displayed the generated image
    \* history variables (observers; no action's guard reads them)
    dCount,    \* opt_disc runs in the current outer iteration
    cCount,    \* clip_disc runs in the current outer iteration
    gCount,    \* opt_gen runs in the current outer iteration
    printed,   \* the loss line of the current outer iteration is printed
    saved,     \* the current outer iteration has saved the checkpoint
    clipped,   \* the process has completed a clip
    didUpdate, \* the process has run an optimizer step
    wrote,     \* the process has written the checkpoint
    sinceD,    \* opt_disc runs since mem last equalled the checkpoint
    sinceG,    \* opt_gen runs since mem last equalled the checkpoint
    lost,      \* <<sinceD, sinceG>> when the last train process was killed
    lostValid, \* a killed train is being started again
    overwrote, \* the last restore replaced a differing initial value
    \* shape propagation (apply_network)
    which,     \* "generator" | "discriminator" | "none"
    batch,     \* B, the batch size of the propagated shape
    layers,    \* the layers still to apply
    shape      \* the shape of sub_in, or ShapeError

vars == <<pc, argv, status, stdout, graph, saver, mem, ckpt, i, losses, shown,
          dCount, cCount, gCount, printed, saved, clipped, didUpdate, wrote,
          sinceD, sinceG, lost, lostValid, overwrote,
          which, batch, layers, shape>>

progVars == <<pc, argv, status, stdout, graph, saver, mem, ckpt, i, losses, shown,
              dCount, cCount, gCount, printed, saved, clipped, didUpdate, wrote,
              sinceD, sinceG, lost, lostValid, overwrote>>

shapeVars == <<which, batch, layers, shape>>

----------------------------------------------------------------------------
(* Bounds and program constants *)

MaxVal == 2

MaxBatch == 6

DiscSteps_short == 30 - 1

DiscSteps == 30

Mag == 1

NoiseSizes == {1, 100}

GVals == {0, 1}

DVals == (0 - MaxVal)..MaxVal

----------------------------------------------------------------------------
(* Variables of the graph *)

\* the variables the layers of self.generator / self.discriminator create
GenNames == {"g_w"}

DiscNames == {"d_w", "d_b"}

GanVars == GenNames \cup DiscNames

generator_vars_all == GanVars

\* GAN.generator_vars: network_vars(self.generator)
generator_vars == GenNames

\* GAN.discriminator_vars: network_vars(self.discriminator)
discriminator_vars == DiscNames

GenSlots == {"adam_g"}

DiscSlots == {"adam_d"}

NoiseVar == {"noise"}

EmptyFn == [v \in {} |-> 0]

Domain(v) ==
    IF v \in DiscNames THEN DVals
    ELSE IF v \in GenNames \cup NoiseVar THEN GVals
    ELSE {0}

\* sess.run(tf.global_variables_initializer()): random weights, zero slots
GlobalInit(g) == {m \in [g -> DVals \cup GVals] : \A v \in g : m[v] \in Domain(v)}

----------------------------------------------------------------------------
(* The checkpoint collaborator: tf.train.Saver *)

\* tf.train.Saver() with no var_list covers the variables that exist when
\* it is constructed, keyed by name
SaverOf(g) == g

CreateSaver == SaverOf(GanVars)

TrainSaver == SaverOf(GanVars)

GenerateSaver == SaverOf(GanVars)

CreateGraph == GanVars

TrainGraph == GanVars \cup GenSlots \cup DiscSlots

GenerateGraph == GanVars \cup NoiseVar

NoCkpt == [st |-> "missing", data |-> EmptyFn]

BadCkpt == [st |-> "corrupt", data |-> EmptyFn]

\* saver.save(sess, SAVE_FILE): overwrites the file with the saver's variables
Save(m, sv) == [st |-> "ok", data |-> [v \in sv |-> m[v]]]

\* saver.restore raises when the file is absent, unreadable or lacks a key
CanRestore(c, sv) == c.st = "ok" /\ sv \subseteq DOMAIN c.data

Restore_generator_only(m, c, sv) ==
    [v \in DOMAIN m |-> IF v \in sv \cap GenNames THEN c.data[v] ELSE m[v]]

\* saver.restore(sess, SAVE_FILE): assigns every variable of the saver
Restore(m, c, sv) ==
    [v \in DOMAIN m |-> IF v \in sv THEN c.data[v] ELSE m[v]]

TryRestore_swallow(m, c, sv) ==
    [ok |-> TRUE, mem |-> IF CanRestore(c, sv) THEN Restore(m, c, sv) ELSE m]

\* sess.run(init) then saver.restore(...): the restore's exception is not
\* caught, so a failed restore ends the process
TryRestore(m, c, sv) ==
    IF CanRestore(c, sv)
      THEN [ok |-> TRUE, mem |-> Restore(m, c, sv)]
      ELSE [ok |-> FALSE, mem |-> m]

----------------------------------------------------------------------------
(* The optimizers and the clip *)

Min2(a, b) == IF a <= b THEN a ELSE b

Max2(a, b) == IF a >= b THEN a ELSE b

ClipByValue_swapped(x, lo, hi) == Min2(Max2(x, hi), lo)

\* tf.clip_by_value(x, lo, hi)
ClipByValue(x, lo, hi) == Min2(Max2(x, lo), hi)

clip_discriminator_first(m, mag) ==
    [v \in DOMAIN m |->
        IF v = "d_w" THEN ClipByValue(m[v], 0 - mag, mag) ELSE m[v]]

\* GAN.clip_discriminator: assign(x, clip_by_value(x, -mag, mag)) for x in disc
clip_discriminator(m, mag) ==
    [v \in DOMAIN m |->
        IF v \in discriminator_vars THEN ClipByValue(m[v], 0 - mag, mag) ELSE m[v]]

\* AdamOptimizer.minimize(obj, var_list): one step moves the variables of
\* var_list and the optimizer's own slots, nothing else
Minimize(m, var_list, slots) ==
    {[v \in DOMAIN m |->
        IF v \in var_list THEN f[v] ELSE IF v \in slots THEN 1 ELSE m[v]] :
     f \in {h \in [var_list -> DVals \cup GVals] : \A v \in var_list : h[v] \in Domain(v)}}

InRange(m) == \A v \in DiscNames : 0 - Mag <= m[v] /\ m[v] <= Mag

----------------------------------------------------------------------------
(* The process *)

Argvs == {<<"mnist_gan">>, <<"mnist_gan", "create">>, <<"mnist_gan", "train">>,
          <<"mnist_gan", "generate">>, <<"mnist_gan", "bogus">>}

UsageLine == <<"Usage: mnist_gan <create | train | generate>">>

UnknownLine(a) == <<"Unknown command: ", a[2]>>

LossLine == <<"disc=%f gen=%f">>

LoopPcs == {"while", "disc_loss", "opt_disc", "clip_disc", "gen_loss", "print",
            "opt_gen", "train_save"}

iterVars == <<dCount, cCount, gCount, printed, saved>>

procVars == <<clipped, didUpdate, wrote>>

lagVars == <<sinceD, sinceG, lost, lostValid, overwrote>>

Dispatch_default(a) ==
    IF Len(a) < 2 THEN [out |-> UsageLine, to |-> "idle"]
    ELSE IF a[2] = "create" THEN [out |-> <<>>, to |-> "create_build"]
    ELSE IF a[2] = "generate" THEN [out |-> <<>>, to |-> "generate_build"]
    ELSE [out |-> <<>>, to |-> "train_build"]

\* main: what is printed and where control goes, by sys.argv
Dispatch(a) ==
    IF Len(a) < 2 THEN [out |-> UsageLine, to |-> "idle"]
    ELSE IF a[2] = "create" THEN [out |-> <<>>, to |-> "create_build"]
    ELSE IF a[2] = "train" THEN [out |-> <<>>, to |-> "train_build"]
    ELSE IF a[2] = "generate" THEN [out |-> <<>>, to |-> "generate_build"]
    ELSE [out |-> UnknownLine(a), to |-> "idle"]

Then_print_last(p) ==
    IF p = "gen_loss" THEN "opt_gen"
    ELSE IF p = "opt_gen" THEN "train_save"
    ELSE IF p = "train_save" THEN "print"
    ELSE "while"

\* the statements that follow the for loop, in program order (lines 71-75)
Then(p) ==
    IF p = "gen_loss" THEN "print"
    ELSE IF p = "print" THEN "opt_gen"
    ELSE IF p = "opt_gen" THEN "train_save"
    ELSE "while"

ForNext_off(n) == IF n <= DiscSteps THEN "disc_loss" ELSE "gen_loss"

\* for _ in range(0, 30): the body runs while the loop variable is below 30
ForNext(n) == IF n < DiscSteps THEN "disc_loss" ELSE "gen_loss"

\* the process ends: its session and its memory are gone
Exit(how) ==
    /\ pc' = "idle"
    /\ status' = how
    /\ mem' = EmptyFn

ProgInit ==
    /\ pc = "idle"
    /\ argv = <<>>
    /\ status = "none"
    /\ stdout = <<>>
    /\ graph = {}
    /\ saver = {}
    /\ mem = EmptyFn
    /\ ckpt \in {NoCkpt, BadCkpt}
    /\ i = 0
    /\ losses = 0
    /\ shown = FALSE
    /\ dCount = 0 /\ cCount = 0 /\ gCount = 0
    /\ printed = FALSE /\ saved = FALSE
    /\ clipped = FALSE /\ didUpdate = FALSE /\ wrote = FALSE
    /\ sinceD = 0 /\ sinceG = 0
    /\ lost = <<0, 0>> /\ lostValid = FALSE /\ overwrote = FALSE

Init ==
    /\ ProgInit
    /\ which = "none" /\ batch = 0 /\ layers = <<>> /\ shape = <<>>

\* the shell starts `python mnist_gan.py ...`
Launch ==
    /\ pc = "idle"
    /\ \E a \in Argvs :
        /\ argv' = a
        /\ lostValid' = (lostValid /\ a = <<"mnist_gan", "train">>)
        /\ lost' = IF lostValid /\ a = <<"mnist_gan", "train">> THEN lost ELSE <<0, 0>>
    /\ pc' = "main"
    /\ status' = "running"
    /\ stdout' = <<>>
    /\ graph' = {} /\ saver' = {} /\ mem' = EmptyFn
    /\ i' = 0 /\ losses' = 0 /\ shown' = FALSE
    /\ dCount' = 0 /\ cCount' = 0 /\ gCount' = 0
    /\ printed' = FALSE /\ saved' = FALSE
    /\ clipped' = FALSE /\ didUpdate' = FALSE /\ wrote' = FALSE
    /\ sinceD' = 0 /\ sinceG' = 0 /\ overwrote' = FALSE
    /\ UNCHANGED <<ckpt, shapeVars>>

Main ==
    /\ pc = "main"
    /\ LET d == Dispatch(argv) IN
        /\ stdout' = d.out
        /\ IF d.to = "idle"
             THEN Exit("clean")
             ELSE /\ pc' = d.to
                  /\ UNCHANGED <<status, mem>>
    /\ UNCHANGED <<argv, graph, saver, ckpt, i, losses, shown, iterVars, procVars,
                   lagVars, shapeVars>>

(* create *)

CreateBuild ==
    /\ pc = "create_build"
    /\ graph' = CreateGraph
    /\ saver' = CreateSaver
    /\ pc' = "create_init"
    /\ UNCHANGED <<argv, status, stdout, mem, ckpt, i, losses, shown, iterVars,
                   procVars, lagVars, shapeVars>>

CreateInit ==
    /\ pc = "create_init"
    /\ mem' \in GlobalInit(graph)
    /\ pc' = "create_save"
    /\ UNCHANGED <<argv, status, stdout, graph, saver, ckpt, i, losses, shown,
                   iterVars, procVars, lagVars, shapeVars>>

CreateSave ==
    /\ pc = "create_save"
    /\ ckpt' = Save(mem, saver)
    /\ wrote' = TRUE
    /\ Exit("clean")
    /\ UNCHANGED <<argv, stdout, graph, saver, i, losses, shown, iterVars,
                   clipped, didUpdate, lagVars, shapeVars>>

(* train *)

\* lines 47-59: GAN(), Saver(), Samples(), the two Adam optimizers, the clip op
TrainBuild ==
    /\ pc = "train_build"
    /\ graph' = TrainGraph
    /\ saver' = TrainSaver
    /\ pc' = "train_init"
    /\ UNCHANGED <<argv, status, stdout, mem, ckpt, i, losses, shown, iterVars,
                   procVars, lagVars, shapeVars>>

TrainInit ==
    /\ pc = "train_init"
    /\ mem' \in GlobalInit(graph)
    /\ pc' = "train_restore"
    /\ UNCHANGED <<argv, status, stdout, graph, saver, ckpt, i, losses, shown,
                   iterVars, procVars, lagVars, shapeVars>>

TrainRestore ==
    /\ pc = "train_restore"
    /\ LET r == TryRestore(mem, ckpt, saver) IN
        IF r.ok
         THEN /\ mem' = r.mem
              /\ overwrote' = (r.mem # mem)
              /\ pc' = "while"
              /\ UNCHANGED <<status, lost, lostValid>>
         ELSE /\ Exit("error")
              /\ overwrote' = FALSE
              /\ lost' = <<0, 0>>
              /\ lostValid' = FALSE
    /\ sinceD' = 0
    /\ sinceG' = 0
    /\ UNCHANGED <<argv, stdout, graph, saver, ckpt, i, losses, shown, iterVars,
                   procVars, shapeVars>>

\* lines 64-66: while True, losses = [], the for loop is entered
LoopTop ==
    /\ pc = "while"
    /\ losses' = 0
    /\ i' = 0
    /\ pc' = ForNext(0)
    /\ dCount' = 0 /\ cCount' = 0 /\ gCount' = 0
    /\ printed' = FALSE /\ saved' = FALSE
    /\ lost' = <<0, 0>> /\ lostValid' = FALSE /\ overwrote' = FALSE
    /\ UNCHANGED <<argv, status, stdout, graph, saver, mem, ckpt, shown, procVars,
                   sinceD, sinceG, shapeVars>>

\* lines 67-68: sample a batch, evaluate disc_obj, append it to losses
DiscLoss ==
    /\ pc = "disc_loss"
    /\ losses' = losses + 1
    /\ pc' = "opt_disc"
    /\ UNCHANGED <<argv, status, stdout, graph, saver, mem, ckpt, i, shown,
                   iterVars, procVars, lagVars, shapeVars>>

\* line 69: sess.run(opt_disc)
OptDisc ==
    /\ pc = "opt_disc"
    /\ mem' \in Minimize(mem, discriminator_vars, DiscSlots)
    /\ pc' = "clip_disc"
    /\ dCount' = dCount + 1
    /\ sinceD' = sinceD + 1
    /\ didUpdate' = TRUE
    /\ UNCHANGED <<argv, status, stdout, graph, saver, ckpt, i, losses, shown,
                   cCount, gCount, printed, saved, clipped, wrote,
                   sinceG, lost, lostValid, overwrote, shapeVars>>

\* line 70: sess.run(clip_disc), and the for loop advances
ClipDisc ==
    /\ pc = "clip_disc"
    /\ mem' = clip_discriminator(mem, Mag)
    /\ i' = i + 1
    /\ pc' = ForNext(i + 1)
    /\ cCount' = cCount + 1
    /\ clipped' = TRUE
    /\ UNCHANGED <<argv, status, stdout, graph, saver, ckpt, losses, shown,
                   dCount, gCount, printed, saved, didUpdate, wrote,
                   lagVars, shapeVars>>

\* lines 71-72: sample a batch, evaluate gen_obj
GenLoss ==
    /\ pc = "gen_loss"
    /\ pc' = Then("gen_loss")
    /\ UNCHANGED <<argv, status, stdout, graph, saver, mem, ckpt, i, losses, shown,
                   iterVars, procVars, lagVars, shapeVars>>

\* line 73: print(... sum(losses)/len(losses) ...); an empty list divides by zero
PrintLoss ==
    /\ pc = "print"
    /\ IF losses = 0
         THEN /\ Exit("error")
              /\ UNCHANGED <<stdout, printed>>
         ELSE /\ stdout' = LossLine
              /\ printed' = TRUE
              /\ pc' = Then("print")
              /\ UNCHANGED <<status, mem>>
    /\ UNCHANGED <<argv, graph, saver, ckpt, i, losses, shown, dCount, cCount,
                   gCount, saved, procVars, lagVars, shapeVars>>

\* line 74: sess.run(opt_gen)
OptGen ==
    /\ pc = "opt_gen"
    /\ mem' \in Minimize(mem, generator_vars, GenSlots)
    /\ pc' = Then("opt_gen")
    /\ gCount' = gCount + 1
    /\ sinceG' = sinceG + 1
    /\ didUpdate' = TRUE
    /\ UNCHANGED <<argv, status, stdout, graph, saver, ckpt, i, losses, shown,
                   dCount, cCount, printed, saved, clipped, wrote,
                   sinceD, lost, lostValid, overwrote, shapeVars>>

\* line 75: saver.save(sess, SAVE_FILE), then back to while True
TrainSave ==
    /\ pc = "train_save"
    /\ ckpt' = Save(mem, saver)
    /\ pc' = Then("train_save")
    /\ saved' = TRUE
    /\ wrote' = TRUE
    /\ sinceD' = 0
    /\ sinceG' = 0
    /\ UNCHANGED <<argv, status, stdout, graph, saver, mem, i, losses, shown,
                   dCount, cCount, gCount, printed, clipped, didUpdate,
                   lost, lostValid, overwrote, shapeVars>>

\* the loop has no exit: the process is terminated from outside
Kill ==
    /\ pc \in LoopPcs
    /\ Exit("killed")
    /\ lost' = <<sinceD, sinceG>>
    /\ lostValid' = TRUE
    /\ UNCHANGED <<argv, stdout, graph, saver, ckpt, i, losses, shown, iterVars,
                   procVars, sinceD, sinceG, overwrote, shapeVars>>

(* generate *)

\* lines 81-83: GAN(), Saver(), then the noise variable
GenerateBuild ==
    /\ pc = "generate_build"
    /\ graph' = GenerateGraph
    /\ saver' = GenerateSaver
    /\ pc' = "generate_init"
    /\ UNCHANGED <<argv, status, stdout, mem, ckpt, i, losses, shown, iterVars,
                   procVars, lagVars, shapeVars>>

GenerateInit ==
    /\ pc = "generate_init"
    /\ mem' \in GlobalInit(graph)
    /\ pc' = "generate_restore"
    /\ UNCHANGED <<argv, status, stdout, graph, saver, ckpt, i, losses, shown,
                   iterVars, procVars, lagVars, shapeVars>>

GenerateRestore ==
    /\ pc = "generate_restore"
    /\ LET r == TryRestore(mem, ckpt, saver) IN
        IF r.ok
         THEN /\ mem' = r.mem
              /\ overwrote' = (r.mem # mem)
              /\ pc' = "generate_run"
              /\ UNCHANGED status
         ELSE /\ Exit("error")
              /\ overwrote' = FALSE
    /\ UNCHANGED <<argv, stdout, graph, saver, ckpt, i, losses, shown, iterVars,
                   procVars, sinceD, sinceG, lost, lostValid, shapeVars>>

\* lines 87-90: run the generator on the noise, show the image, return
GenerateRun ==
    /\ pc = "generate_run"
    /\ shown' = TRUE
    /\ Exit("clean")
    /\ UNCHANGED <<argv, stdout, graph, saver, ckpt, i, losses, iterVars,
                   procVars, lagVars, shapeVars>>

Next ==
    \/ Launch
    \/ Main
    \/ CreateBuild
    \/ CreateInit
    \/ CreateSave
    \/ TrainBuild
    \/ TrainInit
    \/ TrainRestore
    \/ LoopTop
    \/ DiscLoss
    \/ OptDisc
    \/ ClipDisc
    \/ GenLoss
    \/ PrintLoss
    \/ OptGen
    \/ TrainSave
    \/ Kill
    \/ GenerateBuild
    \/ GenerateInit
    \/ GenerateRestore
    \/ GenerateRun

Spec == Init /\ [][Next]_vars

----------------------------------------------------------------------------
(* Shapes: the layers of the two networks and apply_network *)

FC(in_count, out_count) == [kind |-> "FC", in |-> in_count, out |-> out_count]

Reshape(sh) == [kind |-> "Reshape", shape |-> sh]

Resize(size) == [kind |-> "Resize", size |-> size]

\* strides=None is a stride of 1 in both directions
Conv(in_depth, out_depth, strides) ==
    [kind |-> "Conv", in |-> in_depth, out |-> out_depth, strides |-> strides]

\* GAN.__init__: self.generator
generator(noise_size) ==
    << FC(noise_size, 14 * 14),
       FC(14 * 14, 14 * 14),
       FC(14 * 14, 14 * 14),
       Reshape(<<14, 14, 1>>),
       Resize(<<28, 28>>),
       Conv(1, 16, <<1, 1>>),
       Conv(16, 32, <<1, 1>>),
       Conv(32, 32, <<1, 1>>),
       Conv(32, 1, <<1, 1>>) >>

\* GAN.__init__: self.discriminator
discriminator ==
    << Conv(1, 16, <<2, 2>>),
       Conv(16, 32, <<1, 1>>),
       Conv(32, 16, <<2, 2>>),
       Reshape(<<7 * 7 * 16>>),
       FC(784, 256),
       FC(256, 256),
       FC(256, 1) >>

ShapeError == <<0 - 1>>

RECURSIVE Prod(_)
Prod(sh) == IF sh = <<>> THEN 1 ELSE Head(sh) * Prod(Tail(sh))

ValidOut(n, stride) == ((n - 3) \div stride) + 1

\* the output size of a 'SAME'-padded convolution: ceil(n / stride)
SameOut(n, stride) == (n + stride - 1) \div stride

\* layer.apply(sub_in), on shapes; a mismatch is the engine's shape error
ApplyShape(layer, sh) ==
    IF sh = ShapeError THEN ShapeError
    ELSE IF layer.kind = "FC"
    THEN IF Len(sh) = 2 /\ sh[2] = layer.in
           THEN <<sh[1], layer.out>> ELSE ShapeError
    ELSE IF layer.kind = "Reshape"
    THEN IF Prod(Tail(sh)) = Prod(layer.shape)
           THEN <<sh[1]>> \o layer.shape ELSE ShapeError
    ELSE IF layer.kind = "Resize"
    THEN IF Len(sh) = 4
           THEN <<sh[1], layer.size[1], layer.size[2], sh[4]>> ELSE ShapeError
    ELSE IF Len(sh) = 4 /\ sh[4] = layer.in
           THEN <<sh[1], SameOut(sh[2], layer.strides[1]),
                  SameOut(sh[3], layer.strides[2]), layer.out>>
           ELSE ShapeError

\* a batch of noise for the generator, or a batch of images for the discriminator
ShapeInit ==
    /\ ProgInit
    /\ batch \in 1..MaxBatch
    /\ \/ /\ which = "generator"
          /\ \E n \in NoiseSizes :
                /\ layers = generator(n)
                /\ shape = <<batch, n>>
       \/ /\ which = "discriminator"
          /\ layers = discriminator
          /\ shape = <<batch, 28, 28, 1>>

\* apply_network: sub_in = layer.apply(sub_in) for the next layer
ApplyLayer ==
    /\ layers # <<>>
    /\ shape' = ApplyShape(Head(layers), shape)
    /\ layers' = Tail(layers)
    /\ UNCHANGED <<which, batch, progVars>>

\* generator_objective: tf.sigmoid keeps the shape, and the result is the
\* input of discriminate
Discriminate ==
    /\ which = "generator"
    /\ layers = <<>>
    /\ which' = "discriminator"
    /\ layers' = discriminator
    /\ UNCHANGED <<shape, batch, progVars>>

ShapeNext == ApplyLayer \/ Discriminate

ShapeSpec == ShapeInit /\ [][ShapeNext]_vars

----------------------------------------------------------------------------
(* Properties *)

TrainArgv == <<"mnist_gan", "train">>

InvalidArgv == Len(argv) < 2 \/ argv[2] \notin {"create", "train", "generate"}

EndOfIteration == pc = "while" /\ saved

\* C1: in every outer iteration of train there are exactly 30 discriminator
\* updates, each immediately followed by a clip (the clips never lag the
\* updates by more than the one being clipped), and then exactly one generator
\* update, which does not happen before the 30th clip.
C1_ThirtyToOne ==
    pc \in LoopPcs =>
        /\ cCount = IF pc = "clip_disc" THEN dCount - 1 ELSE dCount
        /\ pc \in {"disc_loss", "opt_disc"} => dCount < 30 /\ gCount = 0
        /\ pc = "clip_disc" => dCount <= 30 /\ gCount = 0
        /\ pc \in {"gen_loss", "print", "opt_gen"} =>
              dCount = 30 /\ cCount = 30 /\ gCount = 0
        /\ (pc = "train_save" \/ EndOfIteration) =>
              dCount = 30 /\ cCount = 30 /\ gCount = 1

C1_Witness ==
    pc = "train_save" /\ wrote /\ dCount = 30 /\ cCount = 30 /\ gCount = 1

\* C2: once the first clip of a train process is done, every discriminator
\* parameter is within [-mag, mag] at every point of the loop except between
\* a discriminator update and its clip: at the end of each discriminator step,
\* at the generator update, and in every checkpoint train writes.
C2_ClipHolds ==
    pc \in LoopPcs =>
        /\ (clipped /\ pc # "clip_disc") => InRange(mem)
        /\ wrote => InRange(ckpt.data)

C2_Witness ==
    /\ EndOfIteration
    /\ ckpt.data["d_w"] = Mag
    /\ ckpt.data["d_b"] = 0 - Mag

\* C3: a discriminator update and a clip leave the generator parameters
\* unchanged, and a generator update leaves the discriminator parameters
\* unchanged.
C3_Frame ==
    [][ /\ (pc = "opt_disc" /\ pc' = "clip_disc") =>
              \A v \in GenNames : mem'[v] = mem[v]
        /\ (pc = "clip_disc" /\ pc' \in {"disc_loss", "gen_loss"}) =>
              \A v \in GenNames : mem'[v] = mem[v]
        /\ (pc = "opt_gen" /\ pc' = "train_save") =>
              \A v \in DiscNames : mem'[v] = mem[v] ]_vars

C3_Witness ==
    /\ pc = "train_save"
    /\ wrote
    /\ mem["g_w"] # ckpt.data["g_w"]
    /\ \E v \in DiscNames : mem[v] # ckpt.data[v]

\* C4: when train is terminated anywhere in its loop and started again, the
\* parameters it restores are those of the checkpoint, and the parameters in
\* memory at termination were ahead of them by at most 30 discriminator
\* updates and at most 1 generator update.
C4_BoundedLoss ==
    /\ pc \in LoopPcs => sinceD <= 30 /\ sinceG <= 1
    /\ lostValid => lost[1] <= 30 /\ lost[2] <= 1
    /\ (lostValid /\ pc = "while") => \A v \in GanVars : mem[v] = ckpt.data[v]

C4_Witness == lostValid /\ pc = "while" /\ lost = <<30, 1>> /\ overwrote

\* C5: a save (by create or by train) writes every generator and discriminator
\* parameter, and a restore from a saved checkpoint succeeds and sets every
\* generator and discriminator parameter of the freshly initialized model to
\* the saved value.
C5_RoundTrip ==
    [][ /\ (pc = "create_save" \/ (pc = "train_save" /\ pc' = "while")) =>
              /\ ckpt'.st = "ok"
              /\ \A v \in GanVars : ckpt'.data[v] = mem[v]
        /\ (pc \in {"train_restore", "generate_restore"} /\ ckpt.st = "ok") =>
              /\ pc' \in {"while", "generate_run"}
              /\ \A v \in GanVars : mem'[v] = ckpt.data[v] ]_vars

C5_Witness ==
    /\ pc = "generate_run"
    /\ overwrote
    /\ \A v \in GanVars : mem[v] = ckpt.data[v]

\* C6: clipping twice gives the same discriminator parameters as clipping
\* once, and a parameter already in [-mag, mag] is not changed by a clip.
C6_ClipIdempotent ==
    pc \in LoopPcs =>
        LET once == clip_discriminator(mem, Mag) IN
        /\ clip_discriminator(once, Mag) = once
        /\ \A v \in DiscNames :
              (0 - Mag <= mem[v] /\ mem[v] <= Mag) => once[v] = mem[v]

C6_Witness ==
    /\ pc = "clip_disc"
    /\ mem["d_w"] > Mag
    /\ mem["d_b"] = 0
    /\ clip_discriminator(mem, Mag) # mem

\* C7 (as stated): with no subcommand or an unknown one, the process prints
\* the usage message and exits without constructing a model, updating,
\* generating or writing the checkpoint.
C7_Original ==
    (status # "none" /\ InvalidArgv) =>
        /\ pc \in {"main", "idle"}
        /\ graph = {} /\ ~didUpdate /\ ~shown /\ ~wrote
        /\ pc = "idle" => status = "clean" /\ stdout = UsageLine

\* C7 (amended): with no subcommand the process prints the usage line, with
\* an unknown subcommand it prints "Unknown command: <subcommand>"; in both
\* cases it exits without constructing a model, updating, generating or
\* writing the checkpoint.
C7_Amended ==
    (status # "none" /\ InvalidArgv) =>
        /\ pc \in {"main", "idle"}
        /\ graph = {} /\ ~didUpdate /\ ~shown /\ ~wrote
        /\ pc = "idle" =>
              /\ status = "clean"
              /\ stdout = IF Len(argv) < 2 THEN UsageLine ELSE UnknownLine(argv)

C7_Witness ==
    /\ pc = "idle"
    /\ status = "clean"
    /\ argv = <<"mnist_gan", "bogus">>
    /\ stdout = <<"Unknown command: ", "bogus">>
    /\ ckpt.st = "ok"

\* C8: when train or generate reaches its restore and the checkpoint is
\* missing or unreadable, the process ends with an error at once: no update
\* step has run or runs, no image is shown and the checkpoint is not written.
C8_RestoreFatal ==
    [][ (pc \in {"train_restore", "generate_restore"} /\ ckpt.st # "ok") =>
            /\ pc' = "idle"
            /\ status' = "error"
            /\ ckpt' = ckpt
            /\ ~didUpdate' /\ ~shown' /\ ~wrote' ]_vars

C8_Witness ==
    /\ pc = "idle"
    /\ status = "error"
    /\ argv = TrainArgv
    /\ ckpt.st = "corrupt"
    /\ ~didUpdate /\ ~wrote

\* C9 (as stated): the loss line of an iteration is never printed before that
\* iteration's generator update and checkpoint save.
C9_Original ==
    (pc \in LoopPcs /\ printed) => (gCount = 1 /\ saved)

\* C9 (amended): after the 30 discriminator steps the order is: evaluate the
\* generator loss, print the loss line, apply the generator step, save the
\* checkpoint; the line of an iteration is always printed before that
\* iteration's generator update and save.
C9_Amended ==
    pc \in LoopPcs =>
        /\ pc \in {"disc_loss", "opt_disc", "clip_disc", "gen_loss", "print"} =>
              ~printed /\ gCount = 0 /\ ~saved
        /\ pc = "opt_gen" => printed /\ gCount = 0 /\ ~saved
        /\ pc = "train_save" => printed /\ gCount = 1 /\ ~saved
        /\ EndOfIteration => printed /\ gCount = 1
        /\ gCount = 1 => printed
        /\ saved => printed /\ gCount = 1

C9_Witness == pc = "opt_gen" /\ printed /\ gCount = 0 /\ ~saved /\ stdout = LossLine

\* C10: no layer of either network meets a shape it cannot take; the
\* generator maps [B, noise_size] to [B, 28, 28, 1], the discriminator's
\* input shape, and the discriminator maps that to [B, 1].
C10_Shapes ==
    /\ shape # ShapeError
    /\ (which = "generator" /\ layers = <<>>) => shape = <<batch, 28, 28, 1>>
    /\ (which = "discriminator" /\ layers = <<>>) => shape = <<batch, 1>>
    /\ (which = "discriminator" /\ layers = discriminator) =>
          shape = <<batch, 28, 28, 1>>

C10_Witness ==
    /\ which = "discriminator"
    /\ layers = <<>>
    /\ batch > 1
    /\ shape = <<batch, 1>>

====
